---- MODULE Spec2Model ----
(***************************************************************************)
(* Auction settlement pipeline of the aarath backend: the expired-auction  *)
(* job (auctionJobs), the winner notification service (notificationJobs)   *)
(* and the durable / live stores they read and write.                      *)
(***************************************************************************)
EXTENDS Integers, Sequences, FiniteSets, TLC

\* ------------------------------------------------------------------ bounds
MaxNow == 2
MaxFaults == 1
MaxSends == 2
MaxBids == 3

\* ------------------------------------------------------------- value space
Rooms == {"r1", "r2"}
Ticks == {"cron", "manual"}
Sweeps == {"sweep", "resweep"}
UserIds == {"A", "B", "C"}

\* null / undefined of a string-valued field, and of a number-valued field
NullId == "null"
NullNum == -1

\* a ?? b on strings and on numbers
Coalesce(a, b) == IF a = NullId THEN b ELSE a
CoalesceNum(a, b) == IF a = NullNum THEN b ELSE a

\* JavaScript truthiness of a string / of a number
Truthy(s) == s # NullId /\ s # ""
TruthyNum(n) == n # NullNum /\ n # 0

Range(s) == {s[i] : i \in 1..Len(s)}

\* ----------------------------------------------------- live store records
\* one entry of auctions/{id}/bids: a missing field is NullId / NullNum
RawBid(id, userId, bidderId, amount) ==
  [id |-> id, userId |-> userId, bidderId |-> bidderId, amount |-> amount]

\* formatBidsFromFirebase, one entry
FormatBid(raw) ==
  [id |-> raw.id,
   amount |-> IF TruthyNum(raw.amount) THEN raw.amount ELSE 0,
   bidderId |-> IF Truthy(raw.bidderId) THEN raw.bidderId ELSE "",
   userId |-> IF Truthy(raw.userId) THEN raw.userId
              ELSE IF Truthy(raw.bidderId) THEN raw.bidderId ELSE ""]

\* formatBidsFromFirebase: Object.entries order is the order of the sequence
formatBidsFromFirebase(bids) == [i \in 1..Len(bids) |-> FormatBid(bids[i])]

NoSnapshot == [exists |-> FALSE, bids |-> <<>>, totalBids |-> NullNum,
               currentHighestBid |-> NullNum]
Snapshot(bids, totalBids, chb) ==
  [exists |-> TRUE, bids |-> bids, totalBids |-> totalBids,
   currentHighestBid |-> chb]

\* ------------------------------------------------------ statistics engine
\* new Set(bids.map(b => b.bidderId ?? b.userId).filter(Boolean))
uniqueBidders(bids) ==
  {x \in {Coalesce(bids[i].bidderId, bids[i].userId) : i \in 1..Len(bids)} :
     Truthy(x)}

\* bids.reduce((max, bid) => bid.amount > (max?.amount ?? -Infinity) ? bid : max)
\* as the index of the chosen bid, 0 for undefined
RECURSIVE ReduceMax(_, _, _)
ReduceMax(bids, i, max) ==
  IF i > Len(bids) THEN max
  ELSE ReduceMax(bids, i + 1,
                 IF max = 0 \/ bids[i].amount > bids[max].amount THEN i ELSE max)

\* faulty variant: the reduce keeps its first element
highestBid_First(bids) == IF Len(bids) > 0 THEN 1 ELSE 0

highestBid(bids) == IF Len(bids) > 0 THEN ReduceMax(bids, 1, 0) ELSE 0

highestUserId(bids) ==
  IF highestBid(bids) = 0 THEN NullId
  ELSE Coalesce(bids[highestBid(bids)].userId, NullId)

\* faulty variant: the update writes winner and statistics but not the status
updateData_KeepStatus(auction, bids, currentHighestBid, totalBids) ==
  [status |-> auction.status,
   totalBids |-> CoalesceNum(totalBids, Len(bids)),
   totalParticipants |-> Cardinality(uniqueBidders(bids)),
   currentHighestBid |-> CoalesceNum(currentHighestBid, auction.startingBid),
   currentHighestBidderId |-> highestUserId(bids),
   winnerId |-> highestUserId(bids)]

\* updateAuctionStats: the data written to the room row
updateData(auction, bids, currentHighestBid, totalBids) ==
  [status |-> "ended",
   totalBids |-> CoalesceNum(totalBids, Len(bids)),
   totalParticipants |-> Cardinality(uniqueBidders(bids)),
   currentHighestBid |-> CoalesceNum(currentHighestBid, auction.startingBid),
   currentHighestBidderId |-> highestUserId(bids),
   winnerId |-> highestUserId(bids)]

\* prisma.auctionRoom.update({ where: { id }, data })
ApplyUpdate(row, data) ==
  [row EXCEPT !.status = data.status,
              !.totalBids = data.totalBids,
              !.totalParticipants = data.totalParticipants,
              !.currentHighestBid = data.currentHighestBid,
              !.currentHighestBidderId = data.currentHighestBidderId,
              !.winnerId = data.winnerId]

\* ----------------------------------------------------------- bid reconciler
\* faulty variant: the lookup never finds the bid (blind insert)
BidExists_Never(ledger_, id) == FALSE

\* prisma.auctionBid.findUnique({ where: { id } })
BidExists(ledger_, id) == \E rec \in ledger_ : rec.id = id

\* the primary key of AuctionBid: create rejects an id that is already stored
PrimaryKeyTaken(ledger_, id) == \E rec \in ledger_ : rec.id = id

\* the record prisma.auctionBid.create inserts
NewBidRecord(auctionId, bid, currentHighestBid) ==
  [id |-> bid.id,
   auctionRoomId |-> auctionId,
   amount |-> bid.amount,
   bidderId |-> Coalesce(bid.userId, Coalesce(bid.bidderId, "unknown")),
   isWinningBid |-> TruthyNum(currentHighestBid) /\ bid.amount = currentHighestBid]

\* saveBidHistory run alone from bid i on: the ledger it leaves and whether it
\* returned true; failAt is the bid whose create the store rejects (0: none)
RECURSIVE SaveFrom(_, _, _, _, _, _)
SaveFrom(ledger_, auctionId, bids, currentHighestBid, i, failAt) ==
  IF i > Len(bids) THEN [ledger |-> ledger_, ok |-> TRUE]
  ELSE IF BidExists(ledger_, bids[i].id)
       THEN SaveFrom(ledger_, auctionId, bids, currentHighestBid, i + 1, failAt)
       ELSE IF failAt = i \/ PrimaryKeyTaken(ledger_, bids[i].id)
            THEN [ledger |-> ledger_, ok |-> FALSE]
            ELSE SaveFrom(ledger_ \cup {NewBidRecord(auctionId, bids[i], currentHighestBid)},
                          auctionId, bids, currentHighestBid, i + 1, failAt)

saveBidHistory(ledger_, auctionId, bids, currentHighestBid, failAt) ==
  SaveFrom(ledger_, auctionId, bids, currentHighestBid, 1, failAt)

\* --------------------------------------------------- notification service
\* faulty variant: the email address is not checked
WinnerValid_ExistsOnly(u) == u.exists

\* getWinnerData: the user row exists and has an email address
WinnerValid(u) == u.exists /\ u.email

\* faulty variant: the SMS is sent whatever the WhatsApp send returned
AdditionalAttempts_Both(u, waOk) ==
  IF ~u.whatsapp THEN <<>> ELSE <<"whatsapp", "sms">>

\* sendAdditionalNotifications: the channels attempted after the email, in order
AdditionalAttempts(u, waOk) ==
  IF ~u.whatsapp THEN <<>>
  ELSE IF waOk THEN <<"whatsapp">> ELSE <<"whatsapp", "sms">>

ChannelResult(attempted, ok) ==
  IF ~attempted THEN "null" ELSE IF ok THEN "ok" ELSE "fail"

\* faulty variant: a failed WhatsApp send fails the whole call
notifyAuctionWinner_Strict(u, emailOk, waOk, smsOk) ==
  IF ~WinnerValid(u) \/ (u.whatsapp /\ ~waOk)
  THEN [success |-> FALSE, error |-> TRUE, method |-> NullId,
        messageId |-> NullId, whatsapp |-> "null", sms |-> "null",
        attempts |-> IF WinnerValid(u) THEN <<"email", "whatsapp">> ELSE <<>>]
  ELSE [success |-> TRUE, error |-> FALSE, method |-> "email",
        messageId |-> IF emailOk THEN "msg" ELSE NullId,
        whatsapp |-> ChannelResult(u.whatsapp, waOk),
        sms |-> "null",
        attempts |-> <<"email">> \o AdditionalAttempts(u, waOk)]

\* notifyAuctionWinner: the returned object, the outcome of each transport given;
\* a channel entry "fail" is { success: false, error: <the transport's message> },
\* error TRUE is the catch branch { success: false, error }
notifyAuctionWinner(u, emailOk, waOk, smsOk) ==
  IF ~WinnerValid(u)
  THEN [success |-> FALSE, error |-> TRUE, method |-> NullId,
        messageId |-> NullId, whatsapp |-> "null", sms |-> "null",
        attempts |-> <<>>]
  ELSE [success |-> TRUE, error |-> FALSE, method |-> "email",
        messageId |-> IF emailOk THEN "msg" ELSE NullId,
        whatsapp |-> ChannelResult(u.whatsapp, waOk),
        sms |-> ChannelResult(u.whatsapp /\ ~waOk, smsOk),
        attempts |-> <<"email">> \o AdditionalAttempts(u, waOk)]

\* ---------------------------------------------------------------- scheduler
\* a cron.ScheduledTask: node-cron starts a task when it schedules it
Job(running) == [running |-> running]

\* the static fields of CronJobManager when the module is loaded
NotInitialized == [jobs |-> <<>>, isInitialized |-> FALSE]

\* faulty variant: initialize registers its task on every call
initialize_Again(c) ==
  [jobs |-> Append(c.jobs, Job(TRUE)), isInitialized |-> TRUE]

\* CronJobManager.initialize, cron.schedule going through
initialize(c) ==
  IF c.isInitialized THEN c
  ELSE [jobs |-> Append(c.jobs, Job(TRUE)), isInitialized |-> TRUE]

\* CronJobManager.start past its isInitialized check: job.start() for each
start(c) == [c EXCEPT !.jobs = [i \in 1..Len(c.jobs) |-> Job(TRUE)]]

\* CronJobManager.stop: job.stop() for each
stop(c) == [c EXCEPT !.jobs = [i \in 1..Len(c.jobs) |-> Job(FALSE)]]

\* CronJobManager.getStatus
getStatus(c) == [i \in 1..Len(c.jobs) |-> [index |-> i - 1, running |-> TRUE]]

\* the manager once app.listen's callback has run initialize() and start()
Started == start(initialize(NotInitialized))

\* ------------------------------------------------------------------- state
VARIABLES
  now,        \* the clock new Date() reads
  room,       \* AuctionRoom rows
  ledger,     \* AuctionBid rows
  productEnv, \* Product.environment of each room's product
  live,       \* Firebase aarath/auctions/{id}
  user,       \* User rows
  tick,       \* running checkExpiredAuctions calls (cron callback, manual trigger)
  sweep,      \* running processAuctionWinnerNotifications calls
  faults,     \* transient store failures injected so far
  sent,       \* per room: was notifyAuctionWinner called, primary emails delivered
  call,       \* a direct call of one exported function: its arguments and result
  cron,       \* CronJobManager: its static fields jobs and isInitialized
  proc        \* the server process: up, shutdown (signal handler waiting), exited

vars == <<now, room, ledger, productEnv, live, user, tick, sweep, faults, sent, call,
          cron, proc>>

\* the row productController creates for an auctioned product
NewRoom(endTime) ==
  [status |-> "active", startingBid |-> 1000, endTime |-> endTime,
   totalBids |-> 0, totalParticipants |-> 0, currentHighestBid |-> NullNum,
   currentHighestBidderId |-> NullId, winnerId |-> NullId]

IdleTick ==
  [pc |-> "idle", batch |-> <<>>, bids |-> <<>>, totalBids |-> NullNum,
   currentHighestBid |-> NullNum, i |-> 0, ret |-> "none", logged |-> FALSE]

NoTask == [pc |-> "none", winnerId |-> NullId]
IdleSweep == [pc |-> "idle", task |-> [r \in Rooms |-> NoTask], ret |-> "none"]

NoCall == [op |-> "none"]

UserRow(email, whatsapp) == [exists |-> TRUE, email |-> email, whatsapp |-> whatsapp]

\* live snapshots the bidding client may have left behind
SnapsR1 ==
  {Snapshot(<<RawBid("b1", "A", NullId, 1200), RawBid("b2", NullId, "B", 1500)>>,
            2, 1500)}
SnapsR2 ==
  {NoSnapshot, Snapshot(<<>>, 0, NullNum),
   Snapshot(<<RawBid("b3", "C", "C", 1100)>>, NullNum, NullNum)}

Init ==
  /\ now = 0
  /\ room = [r \in Rooms |-> NewRoom(1)]
  /\ ledger = {}
  /\ productEnv = [r \in Rooms |-> "AUCTION"]
  /\ \E s1 \in SnapsR1, s2 \in SnapsR2 : live = [r \in Rooms |-> IF r = "r1" THEN s1 ELSE s2]
  /\ user = [u \in UserIds |-> IF u = "A" THEN UserRow(TRUE, TRUE)
                               ELSE IF u = "B" THEN UserRow(TRUE, FALSE)
                               ELSE UserRow(FALSE, TRUE)]
  /\ tick = [t \in Ticks |-> IdleTick]
  /\ sweep = [s \in Sweeps |-> IdleSweep]
  /\ faults = 0
  /\ sent = [r \in Rooms |-> [attempted |-> FALSE, emails |-> 0]]
  /\ call = NoCall
  /\ cron = Started
  /\ proc = "up"

\* ------------------------------------------------------------------- clock
Advance ==
  /\ now < MaxNow
  /\ now' = now + 1
  /\ UNCHANGED <<room, ledger, productEnv, live, user, tick, sweep, faults, sent, call, cron, proc>>

\* -------------------------------------------------- expired-auction job
\* faulty variant: the query forgets the status filter
getExpiredAuctions_AnyStatus ==
  {r \in Rooms : room[r].endTime <= now}

\* getExpiredAuctions: where status = "active" and endTime <= now
getExpiredAuctions ==
  {r \in Rooms : room[r].status = "active" /\ room[r].endTime <= now}

\* findMany states no order on the rooms: any order of the result set
Orders(S) == {o \in [1..Cardinality(S) -> S] : Range(o) = S}

Bump(n) == IF n < MaxSends THEN n + 1 ELSE MaxSends

\* faulty variant: the error of a store call is swallowed and the room goes on
\* to its statistics update
Abort_Swallow(t) ==
  [tick[t] EXCEPT !.pc = "update", !.i = 0]

\* faulty variant: the outer catch lets the error out of checkExpiredAuctions
Abort_Throws(t) ==
  [IdleTick EXCEPT !.ret = "thrown"]

\* the catch of processExpiredAuction rethrows, the catch of
\* checkExpiredAuctions returns false: the rest of the batch is dropped
Abort(t) ==
  [IdleTick EXCEPT !.ret = "false"]

\* after the last step of one room: the next room of the batch, or return true
NextRoom(t) ==
  IF Len(tick[t].batch) > 1
  THEN [IdleTick EXCEPT !.pc = "fetch", !.batch = Tail(tick[t].batch)]
  ELSE [IdleTick EXCEPT !.ret = "true", !.logged = TRUE]

\* faulty variant: the statistics update starts after the first bid
NextBid_SkipRest(t) ==
  [tick[t] EXCEPT !.pc = "update", !.i = 0]

\* after one bid of saveBidHistory: the next bid, or updateAuctionStats
NextBid(t) ==
  IF tick[t].i < Len(tick[t].bids)
  THEN [tick[t] EXCEPT !.pc = "find", !.i = tick[t].i + 1]
  ELSE [tick[t] EXCEPT !.pc = "update", !.i = 0]

Fault ==
  /\ faults < MaxFaults
  /\ faults' = faults + 1

\* checkExpiredAuctions up to its first room (or its return on an empty result)
CheckStart(t) ==
  /\ tick[t].pc = "idle"
  /\ \E o \in Orders(getExpiredAuctions) :
       tick' = [tick EXCEPT ![t] =
                  IF Len(o) = 0 THEN [IdleTick EXCEPT !.ret = "true"]
                  ELSE [IdleTick EXCEPT !.pc = "fetch", !.batch = o]]
  /\ UNCHANGED <<now, room, ledger, productEnv, live, user, sweep, faults, sent, call, cron, proc>>

\* the expired-room query rejects
CheckStartFail(t) ==
  /\ tick[t].pc = "idle"
  /\ Fault
  /\ tick' = [tick EXCEPT ![t] = [IdleTick EXCEPT !.ret = "false"]]
  /\ UNCHANGED <<now, room, ledger, productEnv, live, user, sweep, sent, call, cron, proc>>

\* processExpiredAuction: fetchAuctionDataFromFirebase and the locals it fills
Fetch(t) ==
  /\ tick[t].pc = "fetch"
  /\ LET r == Head(tick[t].batch)
         snap == live[r]
         bids == formatBidsFromFirebase(IF snap.exists THEN snap.bids ELSE <<>>)
         totalBids == IF snap.exists THEN CoalesceNum(snap.totalBids, 0) ELSE 0
         chb == IF snap.exists
                THEN CoalesceNum(snap.currentHighestBid, room[r].startingBid)
                ELSE room[r].startingBid
     IN tick' = [tick EXCEPT ![t] =
                   [@ EXCEPT !.pc = IF Len(bids) > 0 THEN "find" ELSE "update",
                             !.bids = bids, !.totalBids = totalBids,
                             !.currentHighestBid = chb,
                             !.i = IF Len(bids) > 0 THEN 1 ELSE 0]]
  /\ UNCHANGED <<now, room, ledger, productEnv, live, user, sweep, faults, sent, call, cron, proc>>

FetchFail(t) ==
  /\ tick[t].pc = "fetch"
  /\ Fault
  /\ tick' = [tick EXCEPT ![t] = Abort(t)]
  /\ UNCHANGED <<now, room, ledger, productEnv, live, user, sweep, sent, call, cron, proc>>

\* saveBidHistory: findUnique for bid i
Find(t) ==
  /\ tick[t].pc = "find"
  /\ tick' = [tick EXCEPT ![t] =
                IF BidExists(ledger, tick[t].bids[tick[t].i].id)
                THEN NextBid(t)
                ELSE [@ EXCEPT !.pc = "create"]]
  /\ UNCHANGED <<now, room, ledger, productEnv, live, user, sweep, faults, sent, call, cron, proc>>

\* saveBidHistory: create for bid i; the primary key rejects an id inserted meanwhile
Create(t) ==
  /\ tick[t].pc = "create"
  /\ LET r == Head(tick[t].batch)
         bid == tick[t].bids[tick[t].i]
     IN IF PrimaryKeyTaken(ledger, bid.id)
        THEN /\ tick' = [tick EXCEPT ![t] = Abort(t)]
             /\ UNCHANGED ledger
        ELSE /\ ledger' = ledger \cup {NewBidRecord(r, bid, tick[t].currentHighestBid)}
             /\ tick' = [tick EXCEPT ![t] = NextBid(t)]
  /\ UNCHANGED <<now, room, productEnv, live, user, sweep, faults, sent, call, cron, proc>>

CreateFail(t) ==
  /\ tick[t].pc = "create"
  /\ Fault
  /\ tick' = [tick EXCEPT ![t] = Abort(t)]
  /\ UNCHANGED <<now, room, ledger, productEnv, live, user, sweep, sent, call, cron, proc>>

\* faulty variant: the zero-bid branch passes the snapshot counters too
StatsData_Locals(t) ==
  updateData(room[Head(tick[t].batch)], tick[t].bids, tick[t].currentHighestBid,
             tick[t].totalBids)

\* the arguments processExpiredAuction passes to updateAuctionStats
StatsData(t) ==
  LET r == Head(tick[t].batch)
  IN IF Len(tick[t].bids) > 0
     THEN updateData(room[r], tick[t].bids, tick[t].currentHighestBid,
                     tick[t].totalBids)
     ELSE updateData(room[r], <<>>, NullNum, NullNum)

\* updateAuctionStats: the room update
Update(t) ==
  /\ tick[t].pc = "update"
  /\ LET r == Head(tick[t].batch)
         data == StatsData(t)
     IN /\ room' = [room EXCEPT ![r] = ApplyUpdate(@, data)]
        /\ tick' = [tick EXCEPT ![t] =
                      [@ EXCEPT !.pc = IF Len(tick[t].bids) > 0 /\ Truthy(data.winnerId)
                                       THEN "notify" ELSE "transfer"]]
  /\ UNCHANGED <<now, ledger, productEnv, live, user, sweep, faults, sent, call, cron, proc>>

UpdateFail(t) ==
  /\ tick[t].pc = "update"
  /\ Fault
  /\ tick' = [tick EXCEPT ![t] = Abort(t)]
  /\ UNCHANGED <<now, room, ledger, productEnv, live, user, sweep, sent, call, cron, proc>>

\* prisma.user.findUnique({ where: { id } }): null for an unknown id
FindUser(id) ==
  IF id \in DOMAIN user THEN user[id]
  ELSE [exists |-> FALSE, email |-> FALSE, whatsapp |-> FALSE]

\* what one notifyAuctionWinner call for room r leaves in the send log
Logged(r, res, emailOk) ==
  [sent EXCEPT ![r] = [attempted |-> TRUE,
                       emails |-> IF Len(res.attempts) > 0 /\ emailOk
                                  THEN Bump(@.emails) ELSE @.emails]]

\* processExpiredAuction: notifyAuctionWinner(auction.id, updatedAuction.winnerId, ...)
Notify(t) ==
  /\ tick[t].pc = "notify"
  /\ LET r == Head(tick[t].batch)
         w == highestUserId(tick[t].bids)
     IN \E emailOk, waOk, smsOk \in BOOLEAN :
          sent' = Logged(r, notifyAuctionWinner(FindUser(w), emailOk, waOk, smsOk), emailOk)
  /\ tick' = [tick EXCEPT ![t] = [@ EXCEPT !.pc = "transfer"]]
  /\ UNCHANGED <<now, room, ledger, productEnv, live, user, sweep, faults, call, cron, proc>>

\* transferAuctionProductEnvironment, then the return of processExpiredAuction
Transfer(t) ==
  /\ tick[t].pc = "transfer"
  /\ productEnv' = [productEnv EXCEPT ![Head(tick[t].batch)] = "MARKETPLACE"]
  /\ tick' = [tick EXCEPT ![t] = NextRoom(t)]
  /\ UNCHANGED <<now, room, ledger, live, user, sweep, faults, sent, call, cron, proc>>

TransferFail(t) ==
  /\ tick[t].pc = "transfer"
  /\ Fault
  /\ tick' = [tick EXCEPT ![t] = Abort(t)]
  /\ UNCHANGED <<now, room, ledger, productEnv, live, user, sweep, sent, call, cron, proc>>

\* ------------------------------------------- winner-notification sweep
\* getEndedAuctionsForNotification: endTime < now, winnerId not null,
\* status not winner_notified
getEndedAuctionsForNotification ==
  {r \in Rooms : /\ room[r].endTime < now
                 /\ room[r].winnerId # NullId
                 /\ room[r].status # "winner_notified"}

\* processAuctionWinnerNotifications up to the first await of every
\* processSingleAuctionWinner it starts (a falsy winnerId is skipped at once)
SweepStart(s) ==
  /\ sweep[s].pc = "idle"
  /\ LET found == getEndedAuctionsForNotification
     IN sweep' = [sweep EXCEPT ![s] =
          IF found = {} THEN [IdleSweep EXCEPT !.ret = "none-pending"]
          ELSE [pc |-> "running", ret |-> "none",
                task |-> [r \in Rooms |->
                   IF r \notin found THEN NoTask
                   ELSE IF ~Truthy(room[r].winnerId)
                        THEN [pc |-> "skipped", winnerId |-> room[r].winnerId]
                        ELSE [pc |-> "notify", winnerId |-> room[r].winnerId]]]]
  /\ UNCHANGED <<now, room, ledger, productEnv, live, user, tick, faults, sent, call, cron, proc>>

\* the query rejects: the sweep throws
SweepStartFail(s) ==
  /\ sweep[s].pc = "idle"
  /\ Fault
  /\ sweep' = [sweep EXCEPT ![s] = [IdleSweep EXCEPT !.ret = "thrown"]]
  /\ UNCHANGED <<now, room, ledger, productEnv, live, user, tick, sent, call, cron, proc>>

\* processSingleAuctionWinner: notifyAuctionWinner and the branch on its success
SweepNotify(s, r) ==
  /\ sweep[s].pc = "running"
  /\ sweep[s].task[r].pc = "notify"
  /\ \E emailOk, waOk, smsOk \in BOOLEAN :
       LET res == notifyAuctionWinner(FindUser(sweep[s].task[r].winnerId),
                                      emailOk, waOk, smsOk)
       IN /\ sent' = Logged(r, res, emailOk)
          /\ sweep' = [sweep EXCEPT ![s].task[r].pc =
                         IF res.success THEN "mark" ELSE "failed"]
  /\ UNCHANGED <<now, room, ledger, productEnv, live, user, tick, faults, call, cron, proc>>

\* processSingleAuctionWinner: update status to winner_notified
SweepMark(s, r) ==
  /\ sweep[s].pc = "running"
  /\ sweep[s].task[r].pc = "mark"
  /\ room' = [room EXCEPT ![r].status = "winner_notified"]
  /\ sweep' = [sweep EXCEPT ![s].task[r].pc = "success"]
  /\ UNCHANGED <<now, ledger, productEnv, live, user, tick, faults, sent, call, cron, proc>>

\* faulty variant: the rejected status update ends the whole run
SweepMarkFail_Throws(s, r) ==
  /\ sweep[s].pc = "running"
  /\ sweep[s].task[r].pc = "mark"
  /\ Fault
  /\ sweep' = [sweep EXCEPT ![s] = [IdleSweep EXCEPT !.ret = "thrown"]]
  /\ UNCHANGED <<now, room, ledger, productEnv, live, user, tick, sent, call, cron, proc>>

\* the status update rejects: caught, the room is reported failed
SweepMarkFail(s, r) ==
  /\ sweep[s].pc = "running"
  /\ sweep[s].task[r].pc = "mark"
  /\ Fault
  /\ sweep' = [sweep EXCEPT ![s].task[r].pc = "failed"]
  /\ UNCHANGED <<now, room, ledger, productEnv, live, user, tick, sent, call, cron, proc>>

\* Promise.allSettled resolves: the sweep returns its summary
SweepFinish(s) ==
  /\ sweep[s].pc = "running"
  /\ \A r \in Rooms : sweep[s].task[r].pc \in {"none", "skipped", "success", "failed"}
  /\ sweep' = [sweep EXCEPT ![s] = [IdleSweep EXCEPT !.ret = "completed"]]
  /\ UNCHANGED <<now, room, ledger, productEnv, live, user, tick, faults, sent, call, cron, proc>>

\* ----------------------------------------------------------- specification
TickStep(t) ==
  \/ CheckStart(t) \/ CheckStartFail(t)
  \/ Fetch(t) \/ FetchFail(t)
  \/ Find(t)
  \/ Create(t) \/ CreateFail(t)
  \/ Update(t) \/ UpdateFail(t)
  \/ Notify(t)
  \/ Transfer(t) \/ TransferFail(t)

SweepStep(s) ==
  \/ SweepStart(s) \/ SweepStartFail(s)
  \/ \E r \in Rooms : SweepNotify(s, r) \/ SweepMark(s, r) \/ SweepMarkFail(s, r)
  \/ SweepFinish(s)

Next ==
  \/ Advance
  \/ \E t \in Ticks : TickStep(t)
  \/ SweepStep("sweep")

Spec == Init /\ [][Next]_vars

\* ------------------------------------------- one scheduler, no sweep running
\* live bid records of every shape the live store allows: userId only,
\* bidderId only, both; two of them share the highest amount
BidPool ==
  {RawBid("b1", "A", NullId, 1200), RawBid("b2", NullId, "B", 1500),
   RawBid("b3", "C", "C", 1400), RawBid("b4", "A", "A", 1500)}

BidLists ==
  {b \in UNION {[1..k -> BidPool] : k \in 0..MaxBids} :
     \A i, j \in 1..Len(b) : i # j => b[i].id # b[j].id}

RECURSIVE MaxAmount(_)
MaxAmount(S) ==
  IF S = {} THEN NullNum
  ELSE LET x == CHOOSE y \in S : TRUE
           m == MaxAmount(S \ {x})
       IN IF x.amount > m THEN x.amount ELSE m

RichSnaps ==
  {NoSnapshot, Snapshot(<<>>, 2, 1500)} \cup
  {Snapshot(b, tb, chb) : b \in BidLists, tb \in {NullNum},
                          chb \in {NullNum}} \cup
  {Snapshot(b, Len(b), MaxAmount(Range(b))) : b \in BidLists}

InitSettle ==
  /\ now = 0
  /\ room = [r \in Rooms |-> NewRoom(1)]
  /\ ledger = {}
  /\ productEnv = [r \in Rooms |-> "AUCTION"]
  /\ \E s1 \in RichSnaps, s2 \in {NoSnapshot, Snapshot(<<>>, 0, NullNum)} :
       live = [r \in Rooms |-> IF r = "r1" THEN s1 ELSE s2]
  /\ user = [u \in UserIds |-> IF u = "A" THEN UserRow(TRUE, TRUE)
                               ELSE IF u = "B" THEN UserRow(TRUE, FALSE)
                               ELSE UserRow(FALSE, TRUE)]
  /\ tick = [t \in Ticks |-> IdleTick]
  /\ sweep = [s \in Sweeps |-> IdleSweep]
  /\ faults = 0
  /\ sent = [r \in Rooms |-> [attempted |-> FALSE, emails |-> 0]]
  /\ call = NoCall
  /\ cron = Started
  /\ proc = "up"

NextSettle ==
  \/ Advance
  \/ TickStep("cron")

SpecSettle == InitSettle /\ [][NextSettle]_vars

\* the steps of a call that go through (no store call rejects)
TickOk(t) ==
  \/ CheckStart(t) \/ Fetch(t) \/ Find(t) \/ Create(t)
  \/ Update(t) \/ Notify(t) \/ Transfer(t)

\* node-cron fires the callback every minute and every await resolves
FairSettle == SpecSettle /\ WF_vars(Advance) /\ WF_vars(TickOk("cron"))

\* ------------------------------------------ direct calls of one function
BaseInit ==
  /\ now = 0
  /\ room = [r \in Rooms |-> NewRoom(1)]
  /\ productEnv = [r \in Rooms |-> "AUCTION"]
  /\ live = [r \in Rooms |-> NoSnapshot]
  /\ user = [u \in UserIds |-> IF u = "A" THEN UserRow(TRUE, TRUE)
                               ELSE IF u = "B" THEN UserRow(TRUE, FALSE)
                               ELSE UserRow(FALSE, TRUE)]
  /\ tick = [t \in Ticks |-> IdleTick]
  /\ sweep = [s \in Sweeps |-> IdleSweep]
  /\ faults = 0
  /\ sent = [r \in Rooms |-> [attempted |-> FALSE, emails |-> 0]]
  /\ cron = Started
  /\ proc = "up"

FormattedPool == {FormatBid(b) : b \in BidPool}

\* bid lists as a caller may pass them: any order, an id possibly repeated
SaveLists == UNION {[1..k -> FormattedPool] : k \in 0..MaxBids}

\* a ledger that already holds bid b1, reconciled earlier for another room
OldLedger ==
  {[id |-> "b1", auctionRoomId |-> "r2", amount |-> 900, bidderId |-> "C",
    isWinningBid |-> FALSE]}

InitSave ==
  /\ BaseInit
  /\ ledger \in {{}, OldLedger}
  /\ \E bids \in SaveLists, chb \in {NullNum, 0, 1500} :
       call = [op |-> "save", auctionId |-> "r1", bids |-> bids,
               currentHighestBid |-> chb, n |-> 0, after1 |-> {},
               ok1 |-> FALSE, ok2 |-> FALSE]

\* saveBidHistory(auctionId, bids, currentHighestBid), first and second call
SaveCall ==
  /\ call.op = "save"
  /\ call.n < 2
  /\ \E failAt \in 0..Len(call.bids) :
       LET res == saveBidHistory(ledger, call.auctionId, call.bids,
                                 call.currentHighestBid, failAt)
       IN /\ ledger' = res.ledger
          /\ call' = IF call.n = 0
                     THEN [call EXCEPT !.n = 1, !.after1 = res.ledger, !.ok1 = res.ok]
                     ELSE [call EXCEPT !.n = 2, !.ok2 = res.ok]
  /\ UNCHANGED <<now, room, productEnv, live, user, tick, sweep, faults, sent, cron, proc>>

SpecSave == InitSave /\ [][SaveCall]_vars

NoResult ==
  [success |-> FALSE, error |-> FALSE, method |-> NullId, messageId |-> NullId,
   whatsapp |-> "null", sms |-> "null", attempts |-> <<>>]

InitNotify ==
  /\ BaseInit
  /\ ledger = {}
  /\ \E r \in Rooms, w \in UserIds \cup {"D"}, emailOk, waOk, smsOk \in BOOLEAN :
       call = [op |-> "notify", auctionId |-> r, winnerId |-> w,
               emailOk |-> emailOk, waOk |-> waOk, smsOk |-> smsOk,
               done |-> FALSE, result |-> NoResult]

\* notifyAuctionWinner(auctionId, winnerId, title, bid), the manual trigger
NotifyCall ==
  /\ call.op = "notify"
  /\ ~call.done
  /\ LET res == notifyAuctionWinner(FindUser(call.winnerId), call.emailOk,
                                    call.waOk, call.smsOk)
     IN /\ call' = [call EXCEPT !.done = TRUE, !.result = res]
        /\ sent' = Logged(call.auctionId, res, call.emailOk)
  /\ UNCHANGED <<now, room, ledger, productEnv, live, user, tick, sweep, faults, cron, proc>>

SpecNotify == InitNotify /\ [][NotifyCall]_vars

\* the orders of one bid set
Reorderings(b) == {p \in [1..Len(b) -> Range(b)] : Range(p) = Range(b)}

StatLists ==
  {b \in SaveLists : \A i, j \in 1..Len(b) : i # j => b[i].id # b[j].id}

NoStats == updateData(NewRoom(1), <<>>, NullNum, NullNum)

InitStats ==
  /\ BaseInit
  /\ ledger = {}
  /\ \E bids \in StatLists, chb \in {NullNum, 1500}, tb \in {NullNum, 2} :
       call = [op |-> "stats", auctionId |-> "r1", bids |-> bids,
               currentHighestBid |-> chb, totalBids |-> tb, done |-> FALSE,
               other |-> bids, first |-> NoStats, second |-> NoStats]

\* updateAuctionStats(auction, bids, currentHighestBid, totalBids) on one bid
\* set in two orders; the room is left as the second call wrote it
StatsCall ==
  /\ call.op = "stats"
  /\ ~call.done
  /\ \E p \in Reorderings(call.bids) :
       LET d1 == updateData(room[call.auctionId], call.bids,
                            call.currentHighestBid, call.totalBids)
           d2 == updateData(room[call.auctionId], p,
                            call.currentHighestBid, call.totalBids)
       IN /\ call' = [call EXCEPT !.done = TRUE, !.other = p,
                                  !.first = d1, !.second = d2]
          /\ room' = [room EXCEPT ![call.auctionId] = ApplyUpdate(ApplyUpdate(@, d1), d2)]
  /\ UNCHANGED <<now, ledger, productEnv, live, user, tick, sweep, faults, sent, cron, proc>>

SpecStats == InitStats /\ [][StatsCall]_vars

\* ------------------------------------------- the scheduler and its process
\* the started jobs: each fires its callback, one checkExpiredAuctions call each
Callbacks == {i \in 1..Len(cron.jobs) : cron.jobs[i].running}

InitCron ==
  /\ now = 0
  /\ room = [r \in Rooms |-> NewRoom(1)]
  /\ ledger = {}
  /\ productEnv = [r \in Rooms |-> "AUCTION"]
  /\ \E s1 \in SnapsR1, s2 \in SnapsR2 : live = [r \in Rooms |-> IF r = "r1" THEN s1 ELSE s2]
  /\ user = [u \in UserIds |-> IF u = "A" THEN UserRow(TRUE, TRUE)
                               ELSE IF u = "B" THEN UserRow(TRUE, FALSE)
                               ELSE UserRow(FALSE, TRUE)]
  /\ tick = [t \in Ticks |-> IdleTick]
  /\ sweep = [s \in Sweeps |-> IdleSweep]
  /\ faults = 0
  /\ sent = [r \in Rooms |-> [attempted |-> FALSE, emails |-> 0]]
  /\ call = NoCall
  /\ cron = NotInitialized
  /\ proc = "up"

\* await CronJobManager.initialize(): cron.schedule goes through or throws
\* (a throw leaves jobs and isInitialized as they were and is rethrown)
Initialize ==
  /\ proc # "exited"
  /\ \E ok \in BOOLEAN :
       /\ cron' = IF ok THEN initialize(cron) ELSE cron
       /\ call' = [op |-> "initialize", was |-> cron.isInitialized,
                   error |-> ~ok /\ ~cron.isInitialized]
  /\ UNCHANGED <<now, room, ledger, productEnv, live, user, tick, sweep, faults, sent, proc>>

\* CronJobManager.start(), POST /start
Start ==
  /\ proc # "exited"
  /\ cron' = IF cron.isInitialized THEN start(cron) ELSE cron
  /\ call' = [op |-> "start", was |-> cron.isInitialized, error |-> ~cron.isInitialized]
  /\ UNCHANGED <<now, room, ledger, productEnv, live, user, tick, sweep, faults, sent, proc>>

\* CronJobManager.stop(), POST /stop
Stop ==
  /\ proc # "exited"
  /\ cron' = stop(cron)
  /\ call' = [op |-> "stop", was |-> cron.isInitialized, error |-> FALSE]
  /\ UNCHANGED <<now, room, ledger, productEnv, live, user, tick, sweep, faults, sent, proc>>

\* POST /restart: stop(); await initialize(); start()
Restart ==
  /\ proc # "exited"
  /\ \E ok \in BOOLEAN :
       LET stopped == stop(cron)
           threw == ~ok /\ ~cron.isInitialized
       IN /\ cron' = IF threw THEN stopped ELSE start(initialize(stopped))
          /\ call' = [op |-> "restart", was |-> cron.isInitialized, error |-> threw]
  /\ UNCHANGED <<now, room, ledger, productEnv, live, user, tick, sweep, faults, sent, proc>>

\* GET /status
GetStatus ==
  /\ proc # "exited"
  /\ call' = [op |-> "status", jobs |-> getStatus(cron)]
  /\ UNCHANGED <<now, room, ledger, productEnv, live, user, tick, sweep, faults, sent, cron, proc>>

\* the schedule fires: the callback of a started job calls checkExpiredAuctions
Fire ==
  /\ proc # "exited"
  /\ Callbacks # {}
  /\ CheckStart("cron") \/ CheckStartFail("cron")

\* the call the callback awaits goes on while the process lives
CronStep ==
  /\ proc # "exited"
  /\ tick["cron"].pc # "idle"
  /\ TickStep("cron")

\* SIGTERM / SIGINT: CronJobManager.shutdown() up to its 2000 ms timer
Shutdown ==
  /\ proc = "up"
  /\ cron' = stop(cron)
  /\ proc' = "shutdown"
  /\ UNCHANGED <<now, room, ledger, productEnv, live, user, tick, sweep, faults, sent, call>>

\* the timer resolves: process.exit(0)
Exit ==
  /\ proc = "shutdown"
  /\ proc' = "exited"
  /\ UNCHANGED <<now, room, ledger, productEnv, live, user, tick, sweep, faults, sent, call, cron>>

NextCron ==
  \/ Advance
  \/ Initialize \/ Start \/ Stop \/ Restart \/ GetStatus
  \/ Fire \/ CronStep
  \/ Shutdown \/ Exit

SpecCron == InitCron /\ [][NextCron]_vars

\* ------------------------- the scheduled job with the sweep's manual trigger
\* CronJobManager registers checkExpiredAuctions only; the sweep runs when
\* the notification controller is called
NextSweep ==
  \/ Advance
  \/ TickStep("cron")
  \/ SweepStep("sweep")

SpecSweep == Init /\ [][NextSweep]_vars

\* the steps of a sweep under way that go through
SweepRun(s) ==
  \/ \E r \in Rooms : SweepNotify(s, r) \/ SweepMark(s, r)
  \/ SweepFinish(s)

\* node-cron fires its one job every minute, every await of a running call or
\* sweep resolves; nothing schedules the start of a sweep
FairSweep ==
  SpecSweep /\ WF_vars(Advance) /\ WF_vars(TickOk("cron")) /\ WF_vars(SweepRun("sweep"))

\* --------------------------------- the scheduled job with failing inserts
\* the only store call that rejects is prisma.auctionBid.create
NextRetry ==
  \/ Advance
  \/ TickOk("cron")
  \/ CreateFail("cron")

SpecRetry == InitSettle /\ [][NextRetry]_vars

\* node-cron fires the callback every minute and every await settles
FairRetry == SpecRetry /\ WF_vars(Advance) /\ WF_vars(TickOk("cron"))

\* ------------------------------------- saveBidHistory with unpriced bids
\* a live bid record without amount: formatBidsFromFirebase gives it amount 0
UnpricedBid == RawBid("b5", "C", NullId, NullNum)

FlagPool == FormattedPool \cup {FormatBid(UnpricedBid)}

FlagLists == UNION {[1..k -> FlagPool] : k \in 0..MaxBids}

\* the snapshot may report any currentHighestBid, 0 included, or none
InitFlag ==
  /\ BaseInit
  /\ ledger \in {{}, OldLedger}
  /\ \E bids \in FlagLists, chb \in {NullNum, 0, 1200, 1500} :
       call = [op |-> "save", auctionId |-> "r1", bids |-> bids,
               currentHighestBid |-> chb, n |-> 0, after1 |-> {},
               ok1 |-> FALSE, ok2 |-> FALSE]

SpecFlag == InitFlag /\ [][SaveCall]_vars

\* ------------------------------- the scheduled job with overlapping sweeps
\* two requests to the sweep's manual trigger may run at once
NextTriggers ==
  \/ Advance
  \/ TickStep("cron")
  \/ \E s \in Sweeps : SweepStep(s)

SpecTriggers == Init /\ [][NextTriggers]_vars

\* ------------------------- the scheduled job on snapshots with low amounts
\* the live store is written by the bidding clients: a bid below the starting
\* bid with the counters that go with it, and a snapshot still reporting 0
LowSnaps ==
  {Snapshot(<<RawBid("b6", "A", "A", 500)>>, 1, 500),
   Snapshot(<<RawBid("b1", "A", NullId, 1200)>>, 1, 0),
   Snapshot(<<RawBid("b1", "A", NullId, 1200), RawBid("b2", NullId, "B", 1500)>>, 2, 1500)}

InitLow ==
  /\ now = 0
  /\ room = [r \in Rooms |-> NewRoom(1)]
  /\ ledger = {}
  /\ productEnv = [r \in Rooms |-> "AUCTION"]
  /\ \E s1 \in LowSnaps, s2 \in LowSnaps \cup {NoSnapshot} :
       live = [r \in Rooms |-> IF r = "r1" THEN s1 ELSE s2]
  /\ user = [u \in UserIds |-> IF u = "A" THEN UserRow(TRUE, TRUE)
                               ELSE IF u = "B" THEN UserRow(TRUE, FALSE)
                               ELSE UserRow(FALSE, TRUE)]
  /\ tick = [t \in Ticks |-> IdleTick]
  /\ sweep = [s \in Sweeps |-> IdleSweep]
  /\ faults = 0
  /\ sent = [r \in Rooms |-> [attempted |-> FALSE, emails |-> 0]]
  /\ call = NoCall
  /\ cron = Started
  /\ proc = "up"

SpecLow == InitLow /\ [][NextSettle]_vars

\* ================================================================== claims
Settled(r) == room[r].status \in {"ended", "winner_notified"}

\* the step is one of call t of checkExpiredAuctions
StepOf(t) == tick'[t] # tick[t]

\* call t returns in this step
Returns(t) == tick[t].pc # "idle" /\ tick'[t].pc = "idle"

\* C1: room isolation. When a checkExpiredAuctions call returns, every expired
\* room of its batch other than the one whose processing failed has been
\* settled in that call: no room still waiting in the batch is left active.
RoomIsolation ==
  [][\A t \in Ticks :
       Returns(t) =>
         \A y \in Range(Tail(tick[t].batch)) : room'[y].status # "active"]_vars

\* C2: exactly-once winner notification. No room ever has its primary winner
\* notification delivered twice, and a room marked winner_notified has had it
\* delivered.
ExactlyOnceNotification ==
  \A r \in Rooms :
    /\ sent[r].emails <= 1
    /\ room[r].status = "winner_notified" => sent[r].emails = 1

\* the rows of room r in the bid ledger
BidsOf(l, r) == {rec \in l : rec.auctionRoomId = r}

\* call t changes something durable or sends something for room r in this step
Mutates(r) ==
  \/ room'[r] # room[r]
  \/ BidsOf(ledger', r) # BidsOf(ledger, r)
  \/ productEnv'[r] # productEnv[r]
  \/ sent'[r] # sent[r]

\* C3: no double settlement. The batch of a checkExpiredAuctions call holds
\* only rooms that are active with endTime <= now when it queries, and never
\* grows afterwards; every mutation and notification the call makes is for the
\* room of that batch it is processing; a call that finds no active expired
\* room (every expired room already settled) returns without any mutation.
NoDoubleSettlement ==
  [][\A t \in Ticks :
       StepOf(t) =>
         /\ tick[t].pc = "idle" =>
              /\ \A r \in Range(tick'[t].batch) :
                   room[r].status = "active" /\ room[r].endTime <= now
              /\ (\A r \in Rooms : room[r].endTime <= now => Settled(r)) =>
                   tick'[t].pc = "idle"
              /\ <<room, ledger, productEnv, sent>>' = <<room, ledger, productEnv, sent>>
         /\ tick[t].pc # "idle" =>
              /\ Range(tick'[t].batch) \subseteq Range(tick[t].batch)
              /\ ledger \subseteq ledger'
              /\ \A r \in Rooms : Mutates(r) => r = Head(tick[t].batch)]_vars

\* C3 witness: every room is settled and moved to the marketplace, and each
\* caller's latest call returned true without processing any room; the caller
\* that settled them has therefore called again since.
SecondCallIsNoOp ==
  /\ \A r \in Rooms : Settled(r) /\ productEnv[r] = "MARKETPLACE"
  /\ \A t \in Ticks : tick[t].pc = "idle" /\ tick[t].ret = "true" /\ ~tick[t].logged

Rank(status) ==
  CASE status = "scheduled" -> 0
    [] status = "active" -> 1
    [] status = "ended" -> 2
    [] status = "winner_notified" -> 3

\* C10: status monotonicity. No step moves a room's status backwards along
\* scheduled -> active -> ended -> winner_notified.
StatusMonotone ==
  [][\A r \in Rooms : Rank(room'[r].status) >= Rank(room[r].status)]_vars

\* the bidder a live bid record names
BidderOf(raw) == IF Truthy(raw.userId) THEN raw.userId ELSE raw.bidderId

LiveBids(r) == IF live[r].exists THEN live[r].bids ELSE <<>>

\* C7: winner determination. A settled room whose live snapshot holds bids has
\* as winnerId the bidder of a bid of maximal amount in the snapshot; a settled
\* room without bids has winnerId null.
WinnerDetermination ==
  \A r \in Rooms :
    Settled(r) =>
      IF Len(LiveBids(r)) > 0
      THEN \E i \in 1..Len(LiveBids(r)) :
             /\ LiveBids(r)[i].amount = MaxAmount(Range(LiveBids(r)))
             /\ room[r].winnerId = BidderOf(LiveBids(r)[i])
      ELSE room[r].winnerId = NullId

\* C7 witness: starting bid 1000, bids A:1200, B:1500, C:1400 settled with winner B
WinnerExample ==
  /\ room["r1"].startingBid = 1000
  /\ LiveBids("r1") = <<RawBid("b1", "A", NullId, 1200), RawBid("b2", NullId, "B", 1500),
                        RawBid("b3", "C", "C", 1400)>>
  /\ room["r1"].status = "ended"
  /\ room["r1"].winnerId = "B"

\* C8: product returns to marketplace. Every room that has been ended
\* eventually has its product in MARKETPLACE while the scheduler keeps ticking.
ProductReturns ==
  \A r \in Rooms : Settled(r) ~> (productEnv[r] = "MARKETPLACE")

ZeroBid(r) == Len(LiveBids(r)) = 0

\* no call is in the middle of processing room r
NotProcessing(r) ==
  \A t \in Ticks : tick[t].pc = "idle" \/ Head(tick[t].batch) # r

\* C9: zero-bid settlement. A room whose live snapshot is absent or holds no
\* bids never has a winner notification attempted; once settled it is ended
\* with totalBids 0, totalParticipants 0, winnerId null and currentHighestBid
\* equal to startingBid; and once its processing has returned with no store
\* call having failed, its product is in MARKETPLACE.
ZeroBidSettlement ==
  \A r \in Rooms :
    ZeroBid(r) =>
      /\ ~sent[r].attempted
      /\ room[r].status # "active" =>
           /\ room[r].status = "ended"
           /\ room[r].totalBids = 0
           /\ room[r].totalParticipants = 0
           /\ room[r].winnerId = NullId
           /\ room[r].currentHighestBid = room[r].startingBid
      /\ (Settled(r) /\ NotProcessing(r) /\ faults = 0) =>
           productEnv[r] = "MARKETPLACE"

\* C9 witness: a room without snapshot and a room whose snapshot has no bids
\* (only stale counters) are both settled and back in the marketplace
ZeroBidSettled ==
  /\ ~live["r2"].exists /\ live["r1"] = Snapshot(<<>>, 2, 1500)
  /\ now >= 1
  /\ \A r \in Rooms : room[r].status = "ended" /\ productEnv[r] = "MARKETPLACE"
  /\ tick["cron"].pc = "idle"

\* C4: idempotent reconciliation. The second of two saveBidHistory calls with
\* the same arguments leaves every record it found in the ledger unchanged, and
\* when the first call went through, the second one returns true and leaves
\* the ledger exactly as the first left it (same records, same count).
IdempotentReconciliation ==
  (call.op = "save" /\ call.n = 2) =>
    /\ call.after1 \subseteq ledger
    /\ call.ok1 =>
         /\ call.ok2
         /\ ledger = call.after1
         /\ Cardinality(ledger) = Cardinality(call.after1)

\* C4 witness: three bids reconciled by the first call into a ledger that held
\* another record, and the second call done
ReconciledTwice ==
  /\ call.op = "save" /\ call.n = 2 /\ call.ok1
  /\ Cardinality({call.bids[i].id : i \in 1..Len(call.bids)}) = 3
  /\ Cardinality(ledger) = 3
  /\ OldLedger \subseteq ledger

\* C5: mandatory primary channel. notifyAuctionWinner returns success = true
\* only if the email send succeeded.
MandatoryPrimary ==
  (call.op = "notify" /\ call.done /\ call.result.success) => call.emailOk

\* C6: statistics determinism. updateAuctionStats writes the same totalBids,
\* totalParticipants, currentHighestBid and winnerId for every two orders of
\* one bid set.
StatsDeterminism ==
  (call.op = "stats" /\ call.done) =>
    /\ call.first.totalBids = call.second.totalBids
    /\ call.first.totalParticipants = call.second.totalParticipants
    /\ call.first.currentHighestBid = call.second.currentHighestBid
    /\ call.first.winnerId = call.second.winnerId

\* C11: checkExpiredAuctions never throws. Every call that ends, ends with the
\* return value true or false; a step in which a store call rejects ends the
\* call with false; and the caller is then free to call again.
NeverThrows ==
  [][\A t \in Ticks :
       /\ Returns(t) => tick'[t].ret \in {"true", "false"}
       /\ (StepOf(t) /\ faults' # faults) =>
            tick'[t].pc = "idle" /\ tick'[t].ret = "false"]_vars

\* C11 witness: a store call has rejected, and a call made after the one it
\* ended has settled rooms and returned true
LaterTickRan ==
  /\ faults >= 1
  /\ tick["cron"].pc = "idle" /\ tick["cron"].ret = "true" /\ tick["cron"].logged

\* the user row a direct notifyAuctionWinner call looks up
Winner == FindUser(call.winnerId)

\* C12: notification partial failure. When the winner is valid and has a
\* WhatsApp number, the email send succeeds and the WhatsApp send fails,
\* notifyAuctionWinner returns success = true (the catch branch is not taken,
\* nothing is thrown) with the WhatsApp entry failed and carrying its error, the
\* email delivered, and the SMS fallback entry showing the SMS outcome,
\* whichever it is.
PartialFailure ==
  (/\ call.op = "notify" /\ call.done
   /\ WinnerValid(Winner) /\ Winner.whatsapp
   /\ call.emailOk /\ ~call.waOk) =>
    /\ call.result.success /\ ~call.result.error
    /\ call.result.method = "email" /\ call.result.messageId = "msg"
    /\ call.result.whatsapp = "fail"
    /\ call.result.sms = (IF call.smsOk THEN "ok" ELSE "fail")
    /\ sent[call.auctionId].emails = 1

\* C12 witness: email delivered, WhatsApp and the SMS fallback both failed,
\* and the call returned success
SecondaryFailed ==
  /\ call.op = "notify" /\ call.done /\ call.winnerId = "A"
  /\ call.emailOk /\ ~call.waOk /\ ~call.smsOk
  /\ call.result.success /\ call.result.sms = "fail"

\* C13: validation fail-fast. When the winner's user row is missing or has no
\* email address, notifyAuctionWinner returns success = false with an error and
\* no channel is attempted: no email, no WhatsApp, no SMS.
FailFast ==
  (call.op = "notify" /\ call.done /\ ~(Winner.exists /\ Winner.email)) =>
    /\ ~call.result.success /\ call.result.error
    /\ call.result.attempts = <<>>
    /\ call.result.whatsapp = "null" /\ call.result.sms = "null"
    /\ sent[call.auctionId].emails = 0

\* C13 witness: the winner has a WhatsApp number but no email address, every
\* transport would work, and the call returned failure
NoEmailAddress ==
  /\ call.op = "notify" /\ call.done /\ call.winnerId = "C"
  /\ Winner.exists /\ ~Winner.email /\ Winner.whatsapp
  /\ call.emailOk /\ call.waOk
  /\ ~call.result.success

\* C14: delayed notification is recovered. Every room that is ended with a
\* winner who can be notified is eventually marked winner_notified while the
\* scheduler keeps firing its jobs.
SweepRecovers ==
  \A r \in Rooms :
    (/\ room[r].status = "ended" /\ room[r].winnerId # NullId
     /\ WinnerValid(FindUser(room[r].winnerId)))
      ~> (room[r].status = "winner_notified")

\* C15: scheduler initialization is idempotent. Whatever initialize, start,
\* stop and restart calls were made, a manager whose initialize has succeeded
\* holds exactly one task (one that has not holds none), so a schedule firing
\* starts at most one checkExpiredAuctions call.
SingleRegistration ==
  /\ cron.isInitialized => Len(cron.jobs) = 1
  /\ ~cron.isInitialized => cron.jobs = <<>>
  /\ Cardinality(Callbacks) <= 1

\* C15 witness: a restart of a manager that was initialized before has gone
\* through (its initialize was a repeated one) and its one task is started
RestartedOnce ==
  /\ call.op = "restart" /\ call.was /\ ~call.error
  /\ cron.isInitialized /\ Len(cron.jobs) = 1 /\ Callbacks = {1}

\* C16: getStatus reflects the jobs' state. It returns one entry per registered
\* job, with index its position, and running true exactly when the job is
\* started.
StatusReflectsJobs ==
  LET st == getStatus(cron)
  IN /\ Len(st) = Len(cron.jobs)
     /\ \A i \in 1..Len(st) :
          st[i].index = i - 1 /\ st[i].running = cron.jobs[i].running

\* C17: graceful shutdown. The process exits only when no checkExpiredAuctions
\* call is in progress, so that (no store call having failed) an exited process
\* leaves no room ended with its product still in AUCTION.
GracefulShutdown ==
  proc = "exited" =>
    /\ \A t \in Ticks : tick[t].pc = "idle"
    /\ faults = 0 =>
         \A r \in Rooms : room[r].status = "ended" => productEnv[r] = "MARKETPLACE"

\* the ledger holds exactly one record for each bid of room r's live snapshot
ReconciledOnce(r) ==
  /\ {rec.id : rec \in BidsOf(ledger, r)} = {LiveBids(r)[i].id : i \in 1..Len(LiveBids(r))}
  /\ Cardinality(BidsOf(ledger, r)) = Len(LiveBids(r))

\* C18: reconciliation failure keeps the room retryable. The step in which a
\* bid insert fails inserts nothing more and ends the call with false (the
\* error reached the caller of processExpiredAuction); the room is active and
\* its row, its product environment and the send log are as before, and the
\* expired-room query selects it again. Every room is eventually settled, and a
\* settled room has each snapshot bid in the ledger exactly once.
RetryableReconciliation ==
  /\ [][\A t \in Ticks :
          (tick[t].pc = "create" /\ faults' # faults) =>
            LET r == Head(tick[t].batch)
            IN /\ ledger' = ledger
               /\ tick'[t].pc = "idle" /\ tick'[t].ret = "false"
               /\ room[r].status = "active" /\ room'[r] = room[r]
               /\ productEnv' = productEnv /\ sent' = sent
               /\ r \in getExpiredAuctions']_vars
  /\ [](\A r \in Rooms : Settled(r) => ReconciledOnce(r))
  /\ \A r \in Rooms : (room[r].status = "active") ~> (Settled(r) /\ ReconciledOnce(r))

\* C18 witness: an insert has failed, and the room with three live bids is
\* settled with three ledger records and its product back in the marketplace
RetriedAfterFailure ==
  /\ faults >= 1
  /\ Len(LiveBids("r1")) = 3
  /\ room["r1"].status = "ended" /\ productEnv["r1"] = "MARKETPLACE"
  /\ Cardinality(BidsOf(ledger, "r1")) = 3

\* the distinct bidders named by the bids of room r's live snapshot
LiveBidders(r) == {BidderOf(LiveBids(r)[i]) : i \in 1..Len(LiveBids(r))}

\* C19: totalParticipants written at settlement is the number of distinct
\* bidder identifiers among the snapshot's bids, whether a bid carries only
\* userId, only bidderId, or both.
ParticipantsCount ==
  \A r \in Rooms :
    Settled(r) => room[r].totalParticipants = Cardinality(LiveBidders(r))

\* C20: totalBids written at settlement of a room whose snapshot holds bids is
\* the snapshot's reported totalBids when it reports one, and the number of
\* bids in the snapshot otherwise.
TotalBidsFallback ==
  \A r \in Rooms :
    (Settled(r) /\ Len(LiveBids(r)) > 0) =>
      room[r].totalBids = IF live[r].totalBids # NullNum THEN live[r].totalBids
                          ELSE Len(LiveBids(r))

\* C21: the currentHighestBid written at settlement is the maximal amount over
\* the snapshot's bids (the amount of the winner's bid), or the room's
\* startingBid when there are no bids.
HighestBidIsMax ==
  \A r \in Rooms :
    Settled(r) =>
      room[r].currentHighestBid =
        IF Len(LiveBids(r)) > 0 THEN MaxAmount(Range(LiveBids(r)))
        ELSE room[r].startingBid

\* C22: winning-flag rule on insert. Every bid saveBidHistory has inserted for
\* the room carries isWinningBid = true if and only if its amount equals the
\* currentHighestBid argument, whatever that argument is (0 and omitted included).
WinningFlagRule ==
  (call.op = "save" /\ call.n >= 1) =>
    \A rec \in BidsOf(ledger, call.auctionId) :
      rec.isWinningBid <=> (rec.amount = call.currentHighestBid)

\* the ledger records of room r flagged as winning
WinningBids(r) == {rec \in BidsOf(ledger, r) : rec.isWinningBid}

\* C23: at most one winning bid per room. In every state each room has at most
\* one ledger record with isWinningBid = true, and in a room ended with a
\* winner that record has the maximal amount and was placed by the winner.
AtMostOneWinningBid ==
  \A r \in Rooms :
    /\ Cardinality(WinningBids(r)) <= 1
    /\ (Settled(r) /\ room[r].winnerId # NullId) =>
         \A rec \in WinningBids(r) :
           /\ rec.amount = MaxAmount(Range(LiveBids(r)))
           /\ rec.bidderId = room[r].winnerId

\* sweep s writes winner_notified to room r in this step
Marks(s, r) == sweep[s].task[r].pc = "mark" /\ sweep'[s].task[r].pc = "success"

\* C24: winner_notified is written at most once and never before ended. Every
\* write of winner_notified by a sweep finds the room with status ended: not
\* scheduled, not active, and not marked already.
MarkedOnce ==
  [][\A s \in Sweeps, r \in Rooms : Marks(s, r) => room[r].status = "ended"]_vars

\* C25: concurrent reconciliation. Under every interleaving of two calls on
\* one room, an insert the store itself does not reject never ends a call with
\* a failure because the other call inserted the identifier first.
ConcurrentReconcile ==
  [][\A t \in Ticks :
       (tick[t].pc = "create" /\ StepOf(t) /\ faults' = faults) =>
         tick'[t].ret # "false"]_vars

SecondaryOrder ==
  (call.op = "notify" /\ call.done /\ WinnerValid(Winner)) =>
    LET a == call.result.attempts
    IN /\ a[1] = "email"
       /\ ("whatsapp" \in Range(a)) <=> Winner.whatsapp
       /\ Winner.whatsapp => a[2] = "whatsapp"
       /\ ("sms" \in Range(a)) <=> (Winner.whatsapp /\ ~call.waOk)
       /\ ("sms" \in Range(a)) => (Len(a) = 3 /\ a[3] = "sms")
       /\ (call.result.sms # "null") <=> ("sms" \in Range(a))
       /\ (call.result.whatsapp # "null") <=> ("whatsapp" \in Range(a))
       /\ ~Winner.whatsapp =>
            a = <<"email">> /\ call.result.whatsapp = "null" /\ call.result.sms = "null"

\* C27 witness: WhatsApp sent at the first try, no SMS attempted
NoFallbackNeeded ==
  /\ call.op = "notify" /\ call.done /\ call.winnerId = "A" /\ call.waOk
  /\ call.result.attempts = <<"email", "whatsapp">>
  /\ call.result.whatsapp = "ok" /\ call.result.sms = "null"

\* C28: in every state a room's currentHighestBid is null or at least its
\* startingBid, also once settlement has written the value of the live
\* snapshot.
HighestBidFloor ==
  \A r \in Rooms :
    \/ room[r].currentHighestBid = NullNum
    \/ room[r].currentHighestBid >= room[r].startingBid

\* C29: winnerId is set only at settlement. In every state a room with a
\* non-null winnerId is ended or winner_notified, and a room that is scheduled
\* or active has winnerId null.
WinnerOnlyAtSettlement ==
  \A r \in Rooms :
    /\ room[r].winnerId # NullId => room[r].status \in {"ended", "winner_notified"}
    /\ room[r].status \in {"scheduled", "active"} => room[r].winnerId = NullId

\* C29 witness: one room is ended with winner B while the other is still
\* active, without winner, in the middle of its settlement
WinnerWritten ==
  /\ room["r1"].status = "ended" /\ room["r1"].winnerId = "B"
  /\ room["r2"].status = "active" /\ room["r2"].winnerId = NullId
  /\ \E t \in Ticks : tick[t].pc = "create" /\ Head(tick[t].batch) = "r2"

\* the task of room r in sweep s goes from one position to another in this step
Moves(s, r, from, to) ==
  sweep[s].task[r].pc = from /\ sweep'[s].task[r].pc = to

\* notifyAuctionWinner returns success for the winner the sweep read for room r
NotifySucceeds(s, r) ==
  \A emailOk, waOk, smsOk \in BOOLEAN :
    notifyAuctionWinner(FindUser(sweep[s].task[r].winnerId), emailOk, waOk, smsOk).success

\* C30: sweep marking and isolation. In one run a room goes on to the
\* winner_notified write if and only if notifyAuctionWinner returned success
\* for it, and only that write moves a room to winner_notified; a room whose
\* notification failed or whose status update rejected keeps its row and is
\* still selected by the next query; and such a failure leaves the run going
\* and the other rooms' tasks as they were.
SweepIsolation ==
  [][\A s \in Sweeps, r \in Rooms :
       /\ sweep[s].task[r].pc = "notify" /\ sweep'[s].task[r].pc # "notify" =>
            IF NotifySucceeds(s, r) THEN Moves(s, r, "notify", "mark")
            ELSE Moves(s, r, "notify", "failed")
       /\ (room'[r].status = "winner_notified" /\ room[r].status # "winner_notified") =>
            \E s2 \in Sweeps : Marks(s2, r)
       /\ (sweep[s].task[r].pc # "failed" /\ sweep'[s].task[r].pc = "failed") =>
            /\ room'[r] = room[r]
            /\ r \in getEndedAuctionsForNotification'
            /\ sweep'[s].pc = "running"
            /\ \A y \in Rooms \ {r} : sweep'[s].task[y] = sweep[s].task[y]
       /\ (sweep[s].pc = "running" /\ faults' # faults /\ sweep'[s] # sweep[s]) =>
            sweep'[s].pc = "running"]_vars

\* C30 witness: in one run the notification of r2's winner (no email address)
\* failed, r2 is still ended, and r1 has been marked winner_notified
OneFailedOneMarked ==
  /\ sweep["sweep"].pc = "running"
  /\ sweep["sweep"].task["r2"].pc = "failed" /\ room["r2"].status = "ended"
  /\ sweep["sweep"].task["r1"].pc = "success" /\ room["r1"].status = "winner_notified"

====
